---- MODULE Spec2Model ----
(***************************************************************************)
(* Model of src/media_api.py: the MediaAPI client of the Dolby.io media    *)
(* service.  One client runs one public operation (prepare_media,          *)
(* download_media, transcode or diagnose) against a remote service whose   *)
(* answers are chosen nondeterministically.                                *)
(*                                                                         *)
(* The remote service may answer any request with any status code of       *)
(* StatusCodes.  A 2xx answer carries the body the service documents for   *)
(* the endpoint; any other answer carries an arbitrary body of BodyTexts.  *)
(***************************************************************************)
EXTENDS Integers, Sequences, FiniteSets, TLC

VARIABLES
  environ,          \* os.environ["DOLBYIO_API_KEY"]
  REQUEST_HEADERS,  \* MediaAPI.REQUEST_HEADERS (class attribute)
  op,               \* the public operation the caller invoked
  pc,               \* position of the client inside that operation
  job_id,           \* local job_id of transcode / diagnose
  presigned_url,    \* local presigned_url of prepare_media
  response,         \* the last requests.Response the client received
  job_response,     \* local job_response of the polling loop (parsed JSON)
  raw,              \* response.raw of the download: bytes not yet read
  served,           \* the byte sequence the download answer serves
  file,             \* content of the file at output_path
  file0,            \* content of that file before the operation was called
  outcome,          \* how the operation ended: returned value or raised error
  trace,            \* what the client did to the outside: requests, prints, sleeps
  remoteStatus,     \* status of the job held by the remote service
  recording         \* whether trace is being recorded

vars == <<environ, REQUEST_HEADERS, op, pc, job_id, presigned_url, response,
          job_response, raw, served, file, file0, outcome, trace, remoteStatus, recording>>

----------------------------------------------------------------------------
(* Bounds of the model *)

MaxPolls == 3      \* status polls recorded in one run
MaxLen == 2        \* bytes of a download body

----------------------------------------------------------------------------
(* Values *)

None == "None"                       \* Python None, JSON null
ApiKeys == {"key-A", "key-B"}
JobIds == {"job-1", "job-2"}
MediaInfos == {"info-1", "info-2"}
PresignedUrls == {"https://upload.example/put-1"}
ByteVals == {0, 255}
Encodings == {"identity", "gzip"}

InputUrl == "https://api.dolby.com/media/input"
OutputUrl == "https://api.dolby.com/media/output"
TranscodeUrl == "https://api.dolby.com/media/transcode"
DiagnoseUrl == "https://api.dolby.com/media/diagnose"

\* arguments of the calls; opaque to the client
DolbyInputUrl == "dlb://in/video.mp4"
TranscodedMediaUrl == "dlb://out/video.mp4"

SleepSeconds == 10

\* status values a job snapshot may carry
Statuses == {"Running", "Failed", "Success", "", None}

\* HTTP status codes the service may answer with
StatusCodes == {200, 300, 422, 500}

----------------------------------------------------------------------------
(* JSON documents: the text on the wire and what response.json() makes of it *)

JobText(j) == "{\"job_id\":\"" \o j \o "\"}"

UrlText(u) == "{\"url\":\"" \o u \o "\"}"

StatusValueText(s) == IF s = None THEN "null" ELSE "\"" \o s \o "\""

SnapshotText(s, m) ==
  IF s = "Success"
  THEN "{\"status\":\"Success\",\"result\":{\"media_info\":\"" \o m \o "\"}}"
  ELSE "{\"status\":" \o StatusValueText(s) \o "}"

ErrorText == "{\"error\":\"invalid url\"}"

NotJsonText == "Bad Gateway"

NoFields == [job_id |-> None, url |-> None, status |-> None, media_info |-> None]

\* a parsed document: the keys it has and their values
Doc(keys, fields) == [ok |-> TRUE, keys |-> keys] @@ fields

JSONDecodeError == [ok |-> FALSE, keys |-> {}] @@ NoFields

Json(text) ==
  IF \E j \in JobIds : text = JobText(j)
  THEN Doc({"job_id"},
           [NoFields EXCEPT !.job_id = CHOOSE j \in JobIds : text = JobText(j)])
  ELSE IF \E u \in PresignedUrls : text = UrlText(u)
  THEN Doc({"url"},
           [NoFields EXCEPT !.url = CHOOSE u \in PresignedUrls : text = UrlText(u)])
  ELSE IF \E s \in Statuses, m \in MediaInfos : text = SnapshotText(s, m)
  THEN LET sm == CHOOSE p \in Statuses \X MediaInfos : text = SnapshotText(p[1], p[2])
       IN  IF sm[1] = "Success"
           THEN Doc({"status", "result"},
                    [NoFields EXCEPT !.status = sm[1], !.media_info = sm[2]])
           ELSE Doc({"status"}, [NoFields EXCEPT !.status = sm[1]])
  ELSE IF text = ErrorText
  THEN Doc({"error"}, NoFields)
  ELSE JSONDecodeError

\* the message of the error response.json() raises for a body that is no JSON
JSONDecodeMsg == "Expecting value: line 1 column 1 (char 0)"

\* bodies a non-2xx answer may carry
BodyTexts ==
  {"", NotJsonText, ErrorText, JobText("job-2"), UrlText("https://upload.example/put-1"),
   SnapshotText("Running", "info-1"), SnapshotText("Success", "info-2")}

----------------------------------------------------------------------------
(* HTTP: what the service may answer, and what the requests library does *)

Is2xx(code) == 200 <= code /\ code < 300

\* variant: only server errors raise
RaiseForServerError(code) == 500 <= code /\ code < 600

\* Response.raise_for_status(): TRUE when it raises HTTPError
RaiseForStatus(code) == 400 <= code /\ code < 600

\* the message of the HTTPError that raise_for_status() raises
HTTPErrorMsg(code, url) ==
  ToString(code) \o (IF code < 500 THEN " Client Error" ELSE " Server Error")
                 \o " for url: " \o url

\* Content-Encoding of a streamed body: gzip is abstracted as a two-byte frame
Encode(encoding, content) ==
  IF encoding = "gzip" THEN <<31, 139>> \o content ELSE content

\* variant: decode_content left False, the wire bytes are read as they are
DecodeOff(encoding, wire) == wire

\* response.raw read with decode_content = True
Decode(encoding, wire) ==
  IF encoding = "gzip" THEN SubSeq(wire, 3, Len(wire)) ELSE wire

Contents == UNION {[1..n -> ByteVals] : n \in 0..MaxLen}

Answer(kind, code, text, encoding) ==
  [kind |-> kind, code |-> code, text |-> text, encoding |-> encoding]

NoResponse == Answer("none", 0, "", "identity")

\* answers to POST /media/input
InputAnswers ==
  {Answer("input", c, UrlText(u), "identity") :
      c \in {c \in StatusCodes : Is2xx(c)}, u \in PresignedUrls}
  \cup {Answer("input", c, t, "identity") :
      c \in {c \in StatusCodes : ~Is2xx(c)}, t \in BodyTexts}

\* answers to the job-creation POST of transcode and diagnose
CreateAnswers ==
  {Answer("create", c, JobText(j), "identity") :
      c \in {c \in StatusCodes : Is2xx(c)}, j \in JobIds}
  \cup {Answer("create", c, t, "identity") :
      c \in {c \in StatusCodes : ~Is2xx(c)}, t \in BodyTexts}

\* answers to the status GET: a 2xx answer is the snapshot of the remote job
StatusAnswers ==
  {Answer("status", c, SnapshotText(remoteStatus, m), "identity") :
      c \in {c \in StatusCodes : Is2xx(c)}, m \in MediaInfos}
  \cup {Answer("status", c, t, "identity") :
      c \in {c \in StatusCodes : ~Is2xx(c)}, t \in BodyTexts}

\* answers to GET /media/output; the body travels in raw, not in text
DownloadAnswers ==
  {Answer("download", c, "", e) : c \in StatusCodes, e \in Encodings}

----------------------------------------------------------------------------
(* What the client does to the outside *)

NoKey == ""

Request(method, url, param, key) ==
  [type |-> "request", method |-> method, url |-> url, param |-> param,
   key |-> key, secs |-> 0]

\* print(job_response) of the polling loops
Printed(doc) ==
  [type |-> "print", method |-> "", url |-> "", param |-> doc.status,
   key |-> "", secs |-> 0]

\* time.sleep(secs)
Slept(secs) ==
  [type |-> "sleep", method |-> "", url |-> "", param |-> "", key |-> "",
   secs |-> secs]

Log(events) == IF recording THEN trace \o events ELSE trace

IsPoll(e) == e.type = "request" /\ e.method = "GET" /\ e.url \in {TranscodeUrl, DiagnoseUrl}

IsDownload(e) == e.type = "request" /\ e.method = "GET" /\ e.url = OutputUrl

NumPolls == Cardinality({i \in 1..Len(trace) : IsPoll(trace[i])})

(* How an operation ends *)

NoOutcome == [kind |-> "none", exc |-> "", payload |-> ""]

Returned(value) == [kind |-> "returned", exc |-> "", payload |-> value]

Raised(exc, payload) == [kind |-> "raised", exc |-> exc, payload |-> payload]

----------------------------------------------------------------------------
(* Initial state: the class has been defined, no operation has been called *)

Init ==
  /\ environ \in ApiKeys
  /\ REQUEST_HEADERS = [x_api_key |-> environ,
                        content_type |-> "application/json",
                        accept |-> "application/json"]
  /\ op = "none"
  /\ pc = "idle"
  /\ job_id = None
  /\ presigned_url = None
  /\ response = NoResponse
  /\ job_response = JSONDecodeError
  /\ raw = <<>>
  /\ served = <<>>
  /\ file0 \in {<<>>, <<7>>}
  /\ file = file0
  /\ outcome = NoOutcome
  /\ trace = <<>>
  /\ remoteStatus = "Running"
  /\ recording = TRUE

----------------------------------------------------------------------------
(* The caller invokes one public operation *)

CallPrepareMedia ==
  /\ pc = "idle"
  /\ op' = "prepare_media"
  /\ pc' = "input_post"
  /\ UNCHANGED <<environ, REQUEST_HEADERS, job_id, presigned_url, response,
                 job_response, raw, served, file, file0, outcome, trace,
                 remoteStatus, recording>>

CallDownloadMedia ==
  /\ pc = "idle"
  /\ op' = "download_media"
  /\ pc' = "download_get"
  /\ UNCHANGED <<environ, REQUEST_HEADERS, job_id, presigned_url, response,
                 job_response, raw, served, file, file0, outcome, trace,
                 remoteStatus, recording>>

CallTranscode ==
  /\ pc = "idle"
  /\ op' = "transcode"
  /\ pc' = "create"
  /\ UNCHANGED <<environ, REQUEST_HEADERS, job_id, presigned_url, response,
                 job_response, raw, served, file, file0, outcome, trace,
                 remoteStatus, recording>>

CallDiagnose ==
  /\ pc = "idle"
  /\ op' = "diagnose"
  /\ pc' = "create"
  /\ UNCHANGED <<environ, REQUEST_HEADERS, job_id, presigned_url, response,
                 job_response, raw, served, file, file0, outcome, trace,
                 remoteStatus, recording>>

----------------------------------------------------------------------------
(* prepare_media *)

\* headers of the upload PUT to the presigned URL: none are passed
UploadKey == NoKey

\* requests.post, raise_for_status, response.json()["url"]
PrepareMediaPost ==
  /\ op = "prepare_media" /\ pc = "input_post"
  /\ \E a \in InputAnswers :
       /\ response' = a
       /\ trace' = Log(<<Request("POST", InputUrl, DolbyInputUrl,
                                 REQUEST_HEADERS.x_api_key)>>)
       /\ IF RaiseForStatus(a.code)
          THEN /\ outcome' = Raised("HTTPError", HTTPErrorMsg(a.code, InputUrl))
               /\ pc' = "done"
               /\ UNCHANGED presigned_url
          ELSE IF ~Json(a.text).ok
          THEN /\ outcome' = Raised("JSONDecodeError", JSONDecodeMsg)
               /\ pc' = "done"
               /\ UNCHANGED presigned_url
          ELSE IF "url" \notin Json(a.text).keys
          THEN /\ outcome' = Raised("KeyError", "url")
               /\ pc' = "done"
               /\ UNCHANGED presigned_url
          ELSE /\ presigned_url' = Json(a.text).url
               /\ pc' = "upload"
               /\ UNCHANGED outcome
  /\ UNCHANGED <<environ, REQUEST_HEADERS, op, job_id, job_response, raw, served,
                 file, file0, remoteStatus, recording>>

\* requests.put(presigned_url, data=input_file); its response is not looked at
PrepareMediaUpload ==
  /\ op = "prepare_media" /\ pc = "upload"
  /\ \E c \in StatusCodes : response' = Answer("upload", c, "", "identity")
  /\ trace' = Log(<<Request("PUT", presigned_url, "", UploadKey)>>)
  /\ outcome' = Returned(None)
  /\ pc' = "done"
  /\ UNCHANGED <<environ, REQUEST_HEADERS, op, job_id, presigned_url, job_response,
                 raw, served, file, file0, remoteStatus, recording>>

----------------------------------------------------------------------------
(* download_media, called by the user or by transcode *)

\* variant: the download is requested without headers
DownloadKeyMissing == NoKey

\* headers of the GET to the media output endpoint
DownloadKey == REQUEST_HEADERS.x_api_key

\* requests.get(..., stream=True) and response.raise_for_status()
DownloadGet ==
  /\ op \in {"download_media", "transcode"} /\ pc = "download_get"
  /\ \E a \in DownloadAnswers, content \in Contents :
       /\ response' = a
       /\ served' = content
       /\ raw' = Encode(a.encoding, content)
       /\ trace' = Log(<<Request("GET", OutputUrl, TranscodedMediaUrl, DownloadKey)>>)
       /\ IF RaiseForStatus(a.code)
          THEN /\ outcome' = Raised("HTTPError", HTTPErrorMsg(a.code, OutputUrl))
               /\ pc' = "done"
          ELSE /\ pc' = "download_open"
               /\ UNCHANGED outcome
  /\ UNCHANGED <<environ, REQUEST_HEADERS, op, job_id, presigned_url, job_response,
                 file, file0, remoteStatus, recording>>

\* response.raw.decode_content = True; open(output_path, "wb") truncates the file
DownloadOpen ==
  /\ pc = "download_open"
  /\ raw' = Decode(response.encoding, raw)
  /\ file' = <<>>
  /\ pc' = "download_copy"
  /\ UNCHANGED <<environ, REQUEST_HEADERS, op, job_id, presigned_url, response,
                 job_response, served, file0, outcome, trace, remoteStatus, recording>>

\* what one round of shutil.copyfileobj writes for the chunk it read
CopyChunk(chunk) == chunk

\* one round of shutil.copyfileobj: read a chunk of any size, write it
DownloadCopy ==
  /\ pc = "download_copy"
  /\ raw # <<>>
  /\ \E n \in 1..Len(raw) :
       /\ file' = file \o CopyChunk(SubSeq(raw, 1, n))
       /\ raw' = SubSeq(raw, n + 1, Len(raw))
  /\ UNCHANGED <<environ, REQUEST_HEADERS, op, pc, job_id, presigned_url, response,
                 job_response, served, file0, outcome, trace, remoteStatus, recording>>

\* the read that returns no bytes ends the copy; both files are closed; return None
DownloadClose ==
  /\ pc = "download_copy"
  /\ raw = <<>>
  /\ outcome' = Returned(None)
  /\ pc' = "done"
  /\ UNCHANGED <<environ, REQUEST_HEADERS, op, job_id, presigned_url, response,
                 job_response, raw, served, file, file0, trace, remoteStatus, recording>>

----------------------------------------------------------------------------
(* Job creation of transcode and diagnose *)

\* transcode catches the HTTPError and raises Exception(response.text)
TranscodeCreateError(a) == Raised("Exception", a.text)

\* diagnose lets the HTTPError of raise_for_status() through
DiagnoseCreateError(a) == Raised("HTTPError", HTTPErrorMsg(a.code, DiagnoseUrl))

\* response.json()["job_id"]
JobIdOf(doc) == doc.job_id

\* the answers raise_for_status() raises for, and the others
Refused(answers) == {a \in answers : RaiseForStatus(a.code)}

Accepted(answers) == {a \in answers : ~RaiseForStatus(a.code)}

\* the creation request is sent and answered with a
CreateRequest(a, url, body) ==
  /\ response' = a
  /\ trace' = Log(<<Request("POST", url, body, REQUEST_HEADERS.x_api_key)>>)
  /\ UNCHANGED <<environ, REQUEST_HEADERS, op, presigned_url, job_response, raw,
                 served, file, file0, remoteStatus, recording>>

\* raise_for_status() raised: the operation ends with httpError
CreateRefused(httpError) ==
  /\ outcome' = httpError
  /\ pc' = "done"
  /\ UNCHANGED job_id

\* raise_for_status() passed: job_id = response.json()["job_id"]
CreateAccepted(a) ==
  IF ~Json(a.text).ok
  THEN /\ outcome' = Raised("JSONDecodeError", JSONDecodeMsg)
       /\ pc' = "done"
       /\ UNCHANGED job_id
  ELSE IF "job_id" \notin Json(a.text).keys
  THEN /\ outcome' = Raised("KeyError", "job_id")
       /\ pc' = "done"
       /\ UNCHANGED job_id
  ELSE /\ job_id' = JobIdOf(Json(a.text))
       /\ pc' = "poll"
       /\ UNCHANGED outcome

TranscodePost ==
  /\ op = "transcode" /\ pc = "create"
  /\ \/ \E a \in Refused(CreateAnswers) :
          /\ CreateRequest(a, TranscodeUrl, "request_body")
          /\ CreateRefused(TranscodeCreateError(a))
     \/ \E a \in Accepted(CreateAnswers) :
          /\ CreateRequest(a, TranscodeUrl, "request_body")
          /\ CreateAccepted(a)

DiagnosePost ==
  /\ op = "diagnose" /\ pc = "create"
  /\ \/ \E a \in Refused(CreateAnswers) :
          /\ CreateRequest(a, DiagnoseUrl, DolbyInputUrl)
          /\ CreateRefused(DiagnoseCreateError(a))
     \/ \E a \in Accepted(CreateAnswers) :
          /\ CreateRequest(a, DiagnoseUrl, DolbyInputUrl)
          /\ CreateAccepted(a)

----------------------------------------------------------------------------
(* check_job_status, as called by the polling loops *)

EndpointUrl == IF op = "transcode" THEN TranscodeUrl ELSE DiagnoseUrl

\* variant: the status query is sent without the job identifier
StatusParamsMissing(id) == None

\* params = {"job_id": job_id}
StatusParams(id) == id

\* check_job_status catches the HTTPError and raises Exception(response.text)
StatusError(a) == Raised("Exception", a.text)

CheckJobStatus ==
  /\ op \in {"transcode", "diagnose"} /\ pc = "poll"
  /\ recording => NumPolls < MaxPolls
  /\ \E a \in StatusAnswers :
       /\ response' = a
       /\ trace' = Log(<<Request("GET", EndpointUrl, StatusParams(job_id),
                                 REQUEST_HEADERS.x_api_key)>>)
       /\ IF RaiseForStatus(a.code)
          THEN /\ outcome' = StatusError(a)
               /\ pc' = "done"
               /\ UNCHANGED job_response
          ELSE IF ~Json(a.text).ok
          THEN /\ outcome' = Raised("JSONDecodeError", JSONDecodeMsg)
               /\ pc' = "done"
               /\ UNCHANGED job_response
          ELSE /\ job_response' = Json(a.text)
               /\ pc' = "loop"
               /\ UNCHANGED outcome
  /\ UNCHANGED <<environ, REQUEST_HEADERS, op, job_id, presigned_url, raw, served,
                 file, file0, remoteStatus, recording>>

----------------------------------------------------------------------------
(* The polling loops of transcode and diagnose *)

\* Python truth value of a status
Truthy(job_status) == job_status # None /\ job_status # ""

\* variant: any non-empty status ends the loop
IsSuccessTruthy(job_status) == Truthy(job_status)

\* job_status and job_status == "Success"
IsSuccess(job_status) == Truthy(job_status) /\ job_status = "Success"

\* variant: the loop polls again without sleeping
RetryNoSleep(doc) == <<Printed(doc)>>

\* the else branch: print(job_response), time.sleep(10)
Retry(doc) == <<Printed(doc), Slept(SleepSeconds)>>

TranscodeLoop ==
  /\ op = "transcode" /\ pc = "loop"
  /\ IF "status" \notin job_response.keys
     THEN /\ outcome' = Raised("KeyError", "status")
          /\ pc' = "done"
          /\ UNCHANGED trace
     ELSE IF IsSuccess(job_response.status)
     THEN /\ pc' = "download_get"
          /\ UNCHANGED <<outcome, trace>>
     ELSE /\ trace' = Log(Retry(job_response))
          /\ pc' = "poll"
          /\ UNCHANGED outcome
  /\ UNCHANGED <<environ, REQUEST_HEADERS, op, job_id, presigned_url, response,
                 job_response, raw, served, file, file0, remoteStatus, recording>>

\* job_response["result"]["media_info"]
MediaInfoOf(doc) == doc.media_info

DiagnoseLoop ==
  /\ op = "diagnose" /\ pc = "loop"
  /\ IF "status" \notin job_response.keys
     THEN /\ outcome' = Raised("KeyError", "status")
          /\ pc' = "done"
          /\ UNCHANGED trace
     ELSE IF IsSuccess(job_response.status)
     THEN /\ IF "result" \in job_response.keys
             THEN outcome' = Returned(MediaInfoOf(job_response))
             ELSE outcome' = Raised("KeyError", "result")
          /\ pc' = "done"
          /\ UNCHANGED trace
     ELSE /\ trace' = Log(Retry(job_response))
          /\ pc' = "poll"
          /\ UNCHANGED outcome
  /\ UNCHANGED <<environ, REQUEST_HEADERS, op, job_id, presigned_url, response,
                 job_response, raw, served, file, file0, remoteStatus, recording>>

----------------------------------------------------------------------------
(* The remote service: the job changes status between two polls *)

RemoteProgress ==
  /\ pc = "poll"
  /\ remoteStatus' \in Statuses \ {remoteStatus}
  /\ UNCHANGED <<environ, REQUEST_HEADERS, op, pc, job_id, presigned_url, response,
                 job_response, raw, served, file, file0, outcome, trace, recording>>

----------------------------------------------------------------------------
(* Specifications *)

ClientStep ==
  \/ PrepareMediaPost
  \/ PrepareMediaUpload
  \/ DownloadGet
  \/ DownloadOpen
  \/ DownloadCopy
  \/ DownloadClose
  \/ TranscodePost
  \/ DiagnosePost
  \/ CheckJobStatus
  \/ TranscodeLoop
  \/ DiagnoseLoop

Next ==
  \/ CallDiagnose
  \/ CallPrepareMedia
  \/ CallDownloadMedia
  \/ CallTranscode
  \/ ClientStep
  \/ RemoteProgress

Spec == Init /\ [][Next]_vars

\* the same client with the record of its actions switched off, so that a
\* polling loop that never ends is a finite-state behaviour
LiveInit ==
  /\ environ \in ApiKeys
  /\ REQUEST_HEADERS = [x_api_key |-> environ,
                        content_type |-> "application/json",
                        accept |-> "application/json"]
  /\ op = "none"
  /\ pc = "idle"
  /\ job_id = None
  /\ presigned_url = None
  /\ response = NoResponse
  /\ job_response = JSONDecodeError
  /\ raw = <<>>
  /\ served = <<>>
  /\ file0 \in {<<>>, <<7>>}
  /\ file = file0
  /\ outcome = NoOutcome
  /\ trace = <<>>
  /\ remoteStatus = "Running"
  /\ recording = FALSE

\* the client is one blocking thread: whenever it can take a step, it does
LiveSpec == LiveInit /\ [][Next]_vars /\ WF_vars(ClientStep)

----------------------------------------------------------------------------
(* Properties *)

Last(seq) == seq[Len(seq)]

Polling == op \in {"transcode", "diagnose"}

IsClientError(code) == 400 <= code /\ code < 600

\* C1: the polling loops of transcode and diagnose end normally only on a
\* snapshot whose status is exactly "Success"; any other status is printed,
\* slept on for 10 seconds and followed by another status poll, always the same way.
C1_OnlySuccessEndsPolling ==
  /\ [](Polling /\ outcome.kind = "returned" => job_response.status = "Success")
  /\ [](Polling /\ pc \in {"download_get", "download_open", "download_copy"}
          => job_response.status = "Success")
  /\ [][(Polling /\ pc = "loop" /\ "status" \in job_response.keys
           /\ job_response.status # "Success")
          => /\ pc' = "poll"
             /\ outcome' = NoOutcome
             /\ trace' = trace \o <<Printed(job_response), Slept(10)>>]_vars
  /\ [][(Polling /\ pc = "poll" /\ pc' # "poll") => IsPoll(Last(trace'))]_vars

C1_Witness ==
  /\ Polling /\ pc = "poll"
  /\ \E i, j \in 1..Len(trace) :
       /\ i < j
       /\ trace[i] = Printed([status |-> "Failed"])
       /\ trace[j] = Printed([status |-> "Failed"])
  /\ \E i \in 1..Len(trace) : trace[i] = Printed([status |-> None])

\* C2: every non-2xx answer to a job-creation call or to a status call makes
\* the client fail with an error whose payload is the raw body text of the answer.
C2_ErrorCarriesBody ==
  (response.kind \in {"create", "status"} /\ ~Is2xx(response.code))
    => (outcome.kind = "raised" /\ outcome.payload = response.text)

\* C3: the job identifier is the job_id field of the creation answer, is
\* assigned once and never changes, and every status poll carries it.
C3_JobIdFixedAndPolled ==
  /\ [](\A i \in 1..Len(trace) :
          IsPoll(trace[i]) => (job_id \in JobIds /\ trace[i].param = job_id))
  /\ [][job_id' # job_id
          => /\ job_id = None
             /\ response'.kind = "create"
             /\ "job_id" \in Json(response'.text).keys
             /\ job_id' = Json(response'.text).job_id]_vars

C3_Witness ==
  /\ job_id = "job-1"
  /\ NumPolls >= 2
  /\ trace[1].type = "request" /\ trace[1].method = "POST"

\* C4: diagnose that observes k snapshots without Success and then one with
\* Success has made exactly k+1 status polls and k sleeps of 10 seconds, one
\* after each of the k snapshots and none after the last, and returns the
\* media_info of the last snapshot.
C4_DiagnosePollsAndSleeps ==
  (op = "diagnose" /\ outcome.kind = "returned")
    => LET k == Cardinality({i \in 1..Len(trace) : trace[i].type = "sleep"})
       IN  /\ Len(trace) = 3 * k + 2
           /\ NumPolls = k + 1
           /\ \A j \in 0..k : IsPoll(trace[2 + 3 * j])
           /\ \A j \in 0..(k - 1) :
                /\ trace[3 + 3 * j].type = "print"
                /\ trace[3 + 3 * j].param # "Success"
                /\ trace[4 + 3 * j] = Slept(10)
           /\ Json(response.text).status = "Success"
           /\ outcome.payload = Json(response.text).media_info
           /\ outcome.payload \in MediaInfos

C4_Witness ==
  /\ op = "diagnose" /\ outcome.kind = "returned"
  /\ Cardinality({i \in 1..Len(trace) : trace[i].type = "sleep"}) = 2
  /\ NumPolls = 3
  /\ Is2xx(response.code)

\* the last thing the client did is the request that got the answer in response
EndedAtAnswer ==
  /\ outcome.kind = "raised"
  /\ pc = "done"
  /\ ~ENABLED ClientStep
  /\ Last(trace).type = "request"
  /\ response.kind = "create" => (Last(trace).method = "POST" /\ job_id = None)
  /\ response.kind = "status" => IsPoll(Last(trace))

C6_EveryRequestCarriesKey ==
  \A i \in 1..Len(trace) :
     trace[i].type = "request" => (trace[i].key = environ /\ trace[i].key \in ApiKeys)

\* C6 as amended: every request to an endpoint of the service (media/input,
\* media/transcode, media/diagnose, media/output, status polls included)
\* carries the API key, the same one for every request; the upload PUT to the
\* presigned URL carries no x-api-key header.
C6_ServiceRequestsCarryKey ==
  /\ REQUEST_HEADERS.x_api_key = environ
  /\ environ \in ApiKeys
  /\ \A i \in 1..Len(trace) :
       trace[i].type = "request"
         => IF trace[i].url \in {InputUrl, OutputUrl, TranscodeUrl, DiagnoseUrl}
            THEN trace[i].key = environ
            ELSE trace[i].method = "PUT" /\ trace[i].key = NoKey

C6_Witness ==
  /\ op = "transcode"
  /\ NumPolls >= 2
  /\ IsDownload(Last(trace))
  /\ Last(trace).key = "key-B"

\* C7: after download_media returns for a 2xx answer, the destination file
\* holds exactly the bytes the answer served, in order, however they were
\* split into chunks, in place of what the file held before.
C7_FileHoldsServedBytes ==
  (response.kind = "download" /\ Is2xx(response.code) /\ outcome.kind = "returned")
    => (file = served /\ pc = "done" /\ raw = <<>>)

C7_Witness ==
  /\ response.kind = "download" /\ Is2xx(response.code) /\ outcome.kind = "returned"
  /\ response.encoding = "gzip"
  /\ served = <<0, 255>>
  /\ file0 = <<7>>
  /\ file = <<0, 255>>

CreationAndStatusAnswered2xx ==
  [](response.kind \in {"create", "status"} => Is2xx(response.code))

FollowUpDone ==
  \/ op = "transcode" /\ response.kind = "download"
  \/ op = "diagnose" /\ outcome.kind = "returned" /\ outcome.payload \in MediaInfos

\* C8: when the creation call and every status call are answered 2xx and the
\* remote status eventually becomes and stays "Success", transcode and
\* diagnose eventually stop polling and do their follow-up (the download
\* request, the return of media_info); when the remote status is never
\* "Success", they never end and poll again and again.
C8_PollingEndsIffSuccess ==
  /\ (CreationAndStatusAnswered2xx /\ <>Polling /\ <>[](remoteStatus = "Success"))
       => <>FollowUpDone
  /\ (CreationAndStatusAnswered2xx /\ <>Polling /\ [](remoteStatus # "Success"))
       => ([](pc # "done") /\ []<>(pc = "loop") /\ []<>(pc = "poll"))

C8_Witness ==
  /\ op = "diagnose" /\ outcome.kind = "returned"
  /\ remoteStatus = "Success"
  /\ Is2xx(response.code)

\* C9: transcode issues the download request at most once, only after a
\* snapshot with status "Success" was observed for the job it created, and
\* no poll, print or sleep follows it; none is issued while the job is only
\* submitted or still polled.
C9_DownloadOnceAfterSuccess ==
  op = "transcode" =>
    /\ \A i \in 1..Len(trace) :
         IsDownload(trace[i])
           => /\ i = Len(trace)
              /\ i > 2
              /\ IsPoll(trace[i - 1])
              /\ trace[i - 1].param = job_id
              /\ job_id \in JobIds
              /\ job_response.status = "Success"
    /\ pc \in {"create", "poll", "loop", "download_get"}
         => \A i \in 1..Len(trace) : ~IsDownload(trace[i])

C9_Witness ==
  /\ op = "transcode" /\ pc = "done"
  /\ IsDownload(Last(trace))
  /\ NumPolls >= 2

====
